---- MODULE Spec2Model ----
(***************************************************************************)
(* The ask-question daemon: the HTTP handler, the promise-chained request  *)
(* queue, processRequest, sendPromptAndWait and the waitForResponse        *)
(* completion detector, run against a ChatGPT page whose DOM changes on    *)
(* its own.  Times are milliseconds.  A Playwright wait that succeeds is   *)
(* charged no time, one that fails is charged its whole timeout.           *)
(***************************************************************************)
EXTENDS Integers, Sequences, FiniteSets, TLC

VARIABLES daemon, page, ui, order, chain, slot, settles, req, proc, resp,
          started, settled, uiBudget, reqBudget, last, loc, health, gone,
          storage, ses, plain

vars == <<daemon, page, ui, order, chain, slot, settles, req, proc, resp,
          started, settled, uiBudget, reqBudget, last, loc, health, gone,
          storage, ses, plain>>

\* ------------------------------------------------------------------ bounds
MaxReq == 2
MaxUIEvents == 2
MaxMsgs == 2
MaxPages == 2
\* the single-request specification: page changes allowed
MaxDetEvents == 3
\* locator resolution: elements in the document, candidates of a role
MaxElems == 3
\* the daemon with its callers: page changes, health requests
MaxSrvEvents == 1
MaxHealth == 1
MaxPlain == 1
MaxCands == 3
\* the page in flux: messages rendered and switches of the busy indicator
MaxLiveEvents == 1

Ids == 1..MaxReq
\* timeouts a request may carry: one too short for the stability threshold
\* to be reached, one long enough for it even after a continuation click
Timeouts == {500, 2250}
\* raw innerText values of an assistant message
Texts == {<<>>, <<" ">>, <<"4">>, <<"4", "2">>}

\* ------------------------------------------------------- program constants
StartWaitMs == 30000
StabilityThreshold == 1500
PollMs == 250
ContinueSleepMs == 500
\* AbortSignal.timeout(timeout + 10000)
CliSlackMs == 10000

\* ------------------------------------------------------------ pure helpers
RECURSIVE TrimLeft(_)
TrimLeft(t) == IF t # <<>> /\ Head(t) = " " THEN TrimLeft(Tail(t)) ELSE t

RECURSIVE TrimRight(_)
TrimRight(t) ==
    IF t # <<>> /\ t[Len(t)] = " " THEN TrimRight(SubSeq(t, 1, Len(t) - 1)) ELSE t

\* String.prototype.trim
Trim(t) == TrimRight(TrimLeft(t))

\* page.locator(SELECTORS.assistantMessage).last(): re-resolved at every use
LastAssistant(dom) == IF dom.msgs = <<>> THEN 0 ELSE Len(dom.msgs)

\* (await lastAssistant.innerText().catch(() => '')).trim()
ReadLastText(dom) ==
    IF LastAssistant(dom) = 0 THEN <<>> ELSE Trim(dom.msgs[LastAssistant(dom)])

\* the document a navigation to the base location loads
\* the texts an error banner may show
BannerTexts == {<<"e">>, <<" ", "f", " ">>}

FreshDom == [stop |-> FALSE, login |-> FALSE, toast |-> FALSE, banner |-> <<>>,
             cont |-> FALSE, composer |-> TRUE, send |-> "enabled", msgs |-> <<>>]

\* what is left to see of a closed page
GoneDom == [stop |-> FALSE, login |-> FALSE, toast |-> FALSE, banner |-> <<>>,
            cont |-> FALSE, composer |-> FALSE, send |-> "hidden", msgs |-> <<>>]

NoProc == [pc |-> "none", beforeCount |-> 0, startTime |-> 0, now |-> 0,
           lastText |-> <<>>, stableMs |-> 0,
           sinceClick |-> 0, clicked |-> FALSE,
           busy |-> "none", quiet |-> FALSE, submits |-> 0, clicks |-> 0, tried |-> FALSE, moved |-> FALSE,
           target |-> 0,
           same |-> 0, via |-> "none"]

\* bookkeeping of the processRequest call that ended last: which request,
\* how it ended, and what its detector had observed by then
NoLast == [id |-> 0, via |-> "none", clicked |-> FALSE, busy |-> "none",
           quiet |-> FALSE, detail |-> <<>>, ripe |-> FALSE]

NoSlot == [state |-> "none", text |-> <<>>, err |-> "none"]
NoResp == [status |-> 0, ok |-> FALSE, text |-> <<>>, error |-> "none"]
NoReqData == [kind |-> "none", timeout |-> 0, newChat |-> FALSE]
\* the replies to GET /health: how many, the last one, and what the queue
\* was doing when it was written
NoHealth == [n |-> 0, status |-> 0, ok |-> FALSE, state |-> "none",
             inflight |-> FALSE, queued |-> FALSE, failed |-> FALSE]
\* the replies to OPTIONS requests and to unknown routes: how many, and the
\* status of the last one
NoPlain == [n |-> 0, status |-> 0]

\* no document resolved against yet
NoLoc == [doc |-> <<>>, found |-> 0]

\* ------------------------------------------------------------------- Init
\* session discovery not yet called: no runtime files, no inputs, no result
NoSes == [pc |-> "idle", ppidMap |-> <<>>, paneMap |-> <<>>, ppid |-> 0,
          tmux |-> [set |-> FALSE, val |-> <<>>],
          tmuxPane |-> [set |-> FALSE, val |-> <<>>],
          out |-> [null |-> TRUE, val |-> <<>>], probes |-> <<>>]

Boot ==
    /\ daemon = "starting"
    /\ page = [gen |-> 0, closed |-> TRUE, url |-> "blank"]
    /\ ui = GoneDom
    /\ order = <<>>
    /\ chain = [i \in Ids |-> "none"]
    /\ slot = [i \in Ids |-> NoSlot]
    /\ settles = [i \in Ids |-> 0]
    /\ req = [i \in Ids |-> NoReqData]
    /\ proc = [i \in Ids |-> NoProc]
    /\ resp = [i \in Ids |-> NoResp]
    /\ started = <<>>
    /\ settled = <<>>
    /\ last = NoLast
    /\ loc = NoLoc
    /\ health = NoHealth
    /\ gone = [i \in Ids |-> FALSE]
    /\ storage \in BOOLEAN
    /\ ses = NoSes
    /\ plain = NoPlain

\* the daemon serving up to MaxReq requests
Init == Boot /\ uiBudget = MaxUIEvents /\ reqBudget = MaxReq

\* the daemon serving one request, the page free to change more often
DetInit == Boot /\ uiBudget = MaxDetEvents /\ reqBudget = 1

\* --------------------------------------------------------------- startup
\* main() without its storage-state check
StartupUnchecked(fileExists, gotoOk) == IF gotoOk THEN "ready" ELSE "exited"

\* main(): process.exit(1) when the storage-state file is missing; else
\* launch, newContext, newPage, goto and listen, any failure ending in
\* main().catch
Startup(fileExists, gotoOk) ==
    IF ~fileExists THEN "nosession"
    ELSE IF gotoOk THEN "ready" ELSE "exited"

\* main(): the storage-state check, browser launch, first page and listen
Main ==
    /\ daemon = "starting"
    /\ \E gotoOk \in BOOLEAN :
         /\ daemon' = Startup(storage, gotoOk)
         /\ IF Startup(storage, gotoOk) = "ready"
            THEN /\ page' = [gen |-> 1, closed |-> FALSE, url |-> "base/"]
                 /\ ui' = FreshDom
            ELSE UNCHANGED <<page, ui>>
    /\ UNCHANGED <<plain, ses, storage, loc, health, gone, order, chain, slot, settles, req, proc,
                   resp, started, settled, uiBudget, reqBudget, last>>

\* ------------------------------------------------------- the request queue
\* the chain hung on the promise of the request enqueued after i
PredSwapped(i) ==
    LET k == CHOOSE n \in 1..Len(order) : order[n] = i
    IN  IF k = Len(order) THEN 0 ELSE order[k + 1]

\* the request whose queueRequest call came just before i's (0: none)
Pred(i) ==
    LET k == CHOOSE n \in 1..Len(order) : order[n] = i
    IN  IF k = 1 THEN 0 ELSE order[k - 1]

\* processRequest called at once, without waiting on the chain
ChainReadyUnchained(i) == TRUE

\* requestQueue.then(() => processRequest(...)): the callback runs once the
\* promise requestQueue held when i was enqueued is fulfilled
ChainReady(i) == IF Pred(i) = 0 THEN TRUE ELSE chain[Pred(i)] = "fulfilled"

\* .then(resolve): calls resolve on fulfilment, passes a rejection on
ThenResolve(result) ==
    IF result.ok THEN [calls |-> <<"resolve">>, ok |-> TRUE]
                 ELSE [calls |-> <<>>, ok |-> FALSE]

\* .then(resolve, reject) in place of .catch(reject): the chain stays rejected
CatchRejectRethrown(link) ==
    IF link.ok THEN [calls |-> link.calls, state |-> "fulfilled"]
               ELSE [calls |-> Append(link.calls, "reject"), state |-> "rejected"]

\* .finally(reject) in place of .catch(reject): reject is called either way
CatchRejectAlways(link) ==
    [calls |-> Append(link.calls, "reject"), state |-> "fulfilled"]

\* .catch(reject): calls reject on rejection; the promise it returns is
\* fulfilled either way
CatchReject(link) ==
    IF link.ok THEN [calls |-> link.calls, state |-> "fulfilled"]
               ELSE [calls |-> Append(link.calls, "reject"), state |-> "fulfilled"]

QueueLinks(result) == CatchReject(ThenResolve(result))

\* the effect of the resolve/reject calls on the result promise: the first
\* call settles it, later calls are ignored
SettleSlot(s, calls, result) ==
    IF calls = <<>> \/ s.state # "pending" THEN s
    ELSE IF Head(calls) = "resolve"
         THEN [state |-> "resolved", text |-> result.text, err |-> "none"]
         ELSE [state |-> "rejected", text |-> <<>>, err |-> result.err]

\* res.writeHead/res.end after the await of queueRequest: the continuation of
\* handleRequest runs in the microtasks that follow resolve/reject
WriteResponse(s) ==
    IF s.state = "resolved"
    THEN [status |-> 200, ok |-> TRUE, text |-> s.text, error |-> "none"]
    ELSE IF s.state = "rejected"
    THEN [status |-> 500, ok |-> FALSE, text |-> <<>>, error |-> s.err]
    ELSE NoResp

\* a reply that tells a text of the timeout path from a finished one
ReplyMarked(s, via) ==
    IF s.state = "resolved" /\ via = "TIMEOUT"
    THEN [WriteResponse(s) EXCEPT !.error = "partial"]
    ELSE WriteResponse(s)

\* the reply is written from the settled promise alone: handleRequest
\* never learns how waitForResponse came by its text
Reply(s, via) == WriteResponse(s)

\* a failed request put back in the queue for another attempt
EndPcRetry(result) == IF result.ok THEN "done" ELSE "queued"

\* processRequest has returned or thrown: nothing calls it again
EndPc(result) == "done"

\* the threshold met by the first unchanged read
StabilizedAtOnce(stableMs) == stableMs >= PollMs

\* if (stableMs >= stabilityThreshold)
Stabilized(stableMs) == stableMs >= StabilityThreshold

\* the comparison without its test for a non-empty text
SameTextOrEmpty(currentText, lastText) == currentText = lastText

\* currentText && currentText === lastText
SameText(currentText, lastText) == currentText # <<>> /\ currentText = lastText

\* the next read of the page as it is would complete the threshold
Ripe(p, dom) == SameText(ReadLastText(dom), p.lastText) /\ Stabilized(p.stableMs + PollMs)

\* `ChatGPT error: ${errorText.trim()}`: what follows the prefix
ErrorText(dom) == Trim(dom.banner)

\* processRequest settles with result: the rest of the chain runs, and with
\* it the rest of handleRequest
Finish(i, result) ==
    LET links == QueueLinks(result)
        s == SettleSlot(slot[i], links.calls, result)
    IN
    /\ proc' = [proc EXCEPT ![i] = [NoProc EXCEPT !.pc = EndPc(result), !.via = result.via]]
    /\ last' = [id |-> i, via |-> result.via, clicked |-> proc[i].clicked,
                 busy |-> proc[i].busy, quiet |-> proc[i].quiet,
                 detail |-> IF result.err = "UpstreamError" THEN ErrorText(ui) ELSE <<>>,
                 ripe |-> Ripe(proc[i], ui)]
    /\ slot' = [slot EXCEPT ![i] = s]
    /\ settles' = [settles EXCEPT ![i] = @ + Len(links.calls)]
    /\ chain' = [chain EXCEPT ![i] = links.state]
    /\ settled' = Append(settled, i)
    /\ resp' = [resp EXCEPT ![i] = Reply(s, result.via)]

Throw(i, err, via) ==
    Finish(i, [ok |-> FALSE, text |-> <<>>, err |-> err, via |-> via])

Return(i, text, via) ==
    Finish(i, [ok |-> TRUE, text |-> text, err |-> "none", via |-> via])

\* a step of processRequest that goes on: only its activation record changes
Goes(i, p) ==
    /\ proc' = [proc EXCEPT ![i] = p]
    /\ UNCHANGED <<slot, settles, chain, settled, resp, last>>

\* ------------------------------------------------------------ processRequest
\* after shutdown() the calls in progress go on against the closed browser
Running(i, pc) == daemon \in {"ready", "down"} /\ proc[i].pc = pc

AfterAcquire(i) == IF req[i].newChat THEN "newchat" ELSE "composer"

\* the chain reaches i: processRequest is called
ProcessStart(i) ==
    /\ Running(i, "queued")
    /\ ChainReady(i)
    /\ proc' = [proc EXCEPT ![i].pc = "acquire"]
    /\ started' = Append(started, i)
    /\ UNCHANGED <<plain, ses, storage, loc, health, gone, daemon, page, ui, order, chain, slot, settles, req, resp,
                   settled, uiBudget, reqBudget, last>>

\* a new page opened for every request
NeedsNewPageAlways(pg) == TRUE

\* !page || page.isClosed()
NeedsNewPage(pg) == pg.gen = 0 \/ pg.closed

\* if (!page || page.isClosed()) { page = newPage(); goto }
Acquire(i) ==
    /\ Running(i, "acquire")
    /\ \/ /\ ~NeedsNewPage(page)
          /\ Goes(i, [proc[i] EXCEPT !.pc = AfterAcquire(i)])
          /\ UNCHANGED <<page, ui>>
       \/ /\ NeedsNewPage(page)
          /\ daemon = "ready"
          /\ page.gen < MaxPages
          /\ page' = [gen |-> page.gen + 1, closed |-> FALSE, url |-> "base/"]
          /\ ui' = FreshDom
          /\ Goes(i, [proc[i] EXCEPT !.pc = AfterAcquire(i)])
       \/ /\ NeedsNewPage(page)
          /\ daemon = "ready"
          /\ page.gen < MaxPages
          /\ page' = [gen |-> page.gen + 1, closed |-> FALSE, url |-> "blank"]
          /\ ui' = GoneDom
          /\ Throw(i, "NavigationError", "ERROR")
       \/ \* context.newPage() on the closed browser
          /\ NeedsNewPage(page)
          /\ daemon = "down"
          /\ Throw(i, "BrowserClosed", "ERROR")
          /\ UNCHANGED <<page, ui>>
    /\ UNCHANGED <<plain, ses, storage, loc, health, gone, daemon, order, req, started, uiBudget, reqBudget>>

\* the comparison with the slash-less form only
AtBaseExact(url) == url = "base"

\* !(url !== CHATGPT_URL && url !== `${CHATGPT_URL}/`)
AtBase(url) == url \in {"base", "base/"}

\* navigateToNewChat
NewChat(i) ==
    /\ Running(i, "newchat")
    /\ \/ /\ AtBase(page.url)
          /\ Goes(i, [proc[i] EXCEPT !.pc = "composer"])
          /\ UNCHANGED <<page, ui>>
       \/ /\ ~AtBase(page.url)
          /\ ~page.closed
          /\ page' = [page EXCEPT !.url = "base/"]
          /\ ui' = FreshDom
          /\ Goes(i, [proc[i] EXCEPT !.pc = "composer"])
       \/ /\ ~AtBase(page.url)
          /\ Throw(i, "NavigationError", "ERROR")
          /\ UNCHANGED <<page, ui>>
    /\ UNCHANGED <<plain, ses, storage, loc, health, gone, daemon, order, req, started, uiBudget, reqBudget>>

\* --------------------------------------------------------- sendPromptAndWait
\* a submission that goes on without waiting for the composer
ComposerFoundAlways(dom) == TRUE

\* composer.waitFor({ state: 'visible', timeout: 15000 }) returns
ComposerFound(dom) == dom.composer

Composer(i) ==
    /\ Running(i, "composer")
    /\ \/ /\ ComposerFound(ui)
          /\ Goes(i, [proc[i] EXCEPT !.pc = "fill"])
       \/ /\ ~ComposerFound(ui)
          /\ ~page.closed
          /\ Throw(i, "ComposerNotFound", "ERROR")
       \/ /\ page.closed
          /\ Throw(i, "TargetClosed", "ERROR")
    /\ UNCHANGED <<plain, ses, storage, loc, health, gone, daemon, page, ui, order, req, started, uiBudget, reqBudget>>

\* composer.fill(prompt), then beforeCount = await assistantMsgs.count()
Fill(i) ==
    /\ Running(i, "fill")
    /\ \/ /\ ui.composer
          /\ Goes(i, [proc[i] EXCEPT !.pc = "count"])
       \/ /\ ~ui.composer
          /\ Throw(i, IF page.closed THEN "TargetClosed" ELSE "ActionTimeout", "ERROR")
    /\ UNCHANGED <<plain, ses, storage, loc, health, gone, daemon, page, ui, order, req, started, uiBudget, reqBudget>>

\* a count of the assistant messages that have some text
CountWithText(dom) == Len(SelectSeq(dom.msgs, LAMBDA m : Trim(m) # <<>>))

\* page.locator(SELECTORS.assistantMessage).count()
AssistantCount(dom) == Len(dom.msgs)

Count(i) ==
    /\ Running(i, "count")
    /\ \/ /\ ~page.closed
          /\ Goes(i, [proc[i] EXCEPT !.pc = "submit", !.moved = FALSE,
                                     !.beforeCount = AssistantCount(ui)])
       \/ /\ page.closed
          /\ Throw(i, "TargetClosed", "ERROR")
    /\ UNCHANGED <<plain, ses, storage, loc, health, gone, daemon, page, ui, order, req, started, uiBudget, reqBudget>>

\* waitForResponse is entered with its clock at zero
Sent(p, gesture) ==
    [p EXCEPT !.pc = "awaitStart", !.tried = FALSE, !.moved = FALSE, !.now = 0,
              !.submits = @ + 1,
              !.clicks = IF gesture = "click" THEN @ + 1 ELSE @]

\* a submission that presses Enter after the try block however it ended
AfterTryAlways(p, gesture) ==
    IF gesture = "none" THEN [p EXCEPT !.tried = TRUE]
    ELSE [p EXCEPT !.tried = TRUE, !.submits = @ + 1,
                   !.clicks = IF gesture = "click" THEN @ + 1 ELSE @]

\* the try block done: on to waitForResponse when its gesture went
\* through, into the catch block when it threw
AfterTry(p, gesture) == IF gesture = "none" THEN [p EXCEPT !.tried = TRUE] ELSE Sent(p, gesture)

\* the try block: the wait for an enabled send button, its failure
\* swallowed; then sendBtn.click({ timeout: 3000 }) when the button is
\* visible and composer.press('Enter') when it is not
Submit(i) ==
    /\ Running(i, "submit")
    /\ ~proc[i].tried
    /\ \/ /\ ui.send = "enabled"
          /\ Goes(i, AfterTry(proc[i], "click"))
       \/ /\ ui.send = "disabled"
          /\ Goes(i, AfterTry(proc[i], "none"))
       \/ /\ ui.send = "hidden"
          /\ ui.composer
          /\ Goes(i, AfterTry(proc[i], "enter"))
       \/ /\ ui.send = "hidden"
          /\ ~ui.composer
          /\ Goes(i, AfterTry(proc[i], "none"))
    /\ UNCHANGED <<plain, ses, storage, loc, health, gone, daemon, page, ui, order, req, started, uiBudget, reqBudget>>

\* the catch block: composer.press('Enter'), its failure the request's
SubmitFallback(i) ==
    /\ Running(i, "submit")
    /\ proc[i].tried
    /\ \/ /\ ui.composer
          /\ Goes(i, Sent(proc[i], "enter"))
       \/ /\ ~ui.composer
          /\ Throw(i, IF page.closed THEN "TargetClosed" ELSE "ActionTimeout", "ERROR")
    /\ UNCHANGED <<plain, ses, storage, loc, health, gone, daemon, page, ui, order, req, started, uiBudget, reqBudget>>

\* ------------------------------------------------------------ waitForResponse
\* the start wait failing the request when the indicator is not seen
AfterStartWaitStrict(seen) == IF seen THEN "generating" ELSE "done"

\* try { await stopBtn.waitFor(visible) } catch { continue anyway }
AfterStartWait(seen) == "generating"

\* Step 1: stopBtn.waitFor({ state: 'visible', timeout: 30000 }) in try/catch
AwaitStart(i) ==
    /\ Running(i, "awaitStart")
    /\ \/ /\ ui.stop
          /\ Goes(i, [proc[i] EXCEPT !.pc = AfterStartWait(TRUE), !.busy = "seen"])
       \/ /\ ~ui.stop
          /\ ~page.closed
          /\ Goes(i, [proc[i] EXCEPT !.pc = AfterStartWait(FALSE), !.busy = "unseen",
                                     !.now = @ + StartWaitMs])
       \/ /\ page.closed
          /\ Goes(i, [proc[i] EXCEPT !.pc = AfterStartWait(FALSE), !.busy = "unseen"])
    /\ UNCHANGED <<plain, ses, storage, loc, health, gone, daemon, page, ui, order, req, started, uiBudget, reqBudget>>

\* Step 2: stopBtn.waitFor({ state: 'hidden', timeout }).catch(...)
Generating(i) ==
    /\ Running(i, "generating")
    /\ \/ /\ ~ui.stop
          /\ Goes(i, [proc[i] EXCEPT !.pc = "msgVisible",
                                     !.busy = IF @ = "seen" THEN "gone" ELSE "absent"])
       \/ /\ ui.stop
          /\ Goes(i, [proc[i] EXCEPT !.pc = "msgVisible", !.busy = "stuck",
                                     !.now = @ + req[i].timeout])
    /\ UNCHANGED <<plain, ses, storage, loc, health, gone, daemon, page, ui, order, req, started, uiBudget, reqBudget>>

\* the loop condition leaving one poll early
LoopPcEarly(p, timeout) ==
    IF p.now - p.startTime + PollMs < timeout THEN "checkErr" ELSE "final"

\* while (Date.now() - startTime < timeout)
LoopPc(p, timeout) == IF p.now - p.startTime < timeout THEN "checkErr" ELSE "final"

LoginShown(pg, dom) == pg.url = "auth" \/ dom.login

\* checkErrorStates looking for the error banner before the login control
CheckErrorStatesBannerFirst(pg, dom) ==
    IF pg.url = "auth" THEN "SessionExpired"
    ELSE IF dom.toast THEN "UpstreamError"
    ELSE IF dom.login THEN "SessionExpired"
    ELSE "none"

\* checkErrorStates without its login-button check
CheckErrorStatesUrlOnly(pg, dom) ==
    IF pg.url = "auth" THEN "SessionExpired"
    ELSE IF dom.toast THEN "UpstreamError"
    ELSE "none"

\* checkErrorStates: what it throws, or "none"
CheckErrorStates(pg, dom) ==
    IF pg.url = "auth" THEN "SessionExpired"
    ELSE IF dom.login THEN "SessionExpired"
    ELSE IF dom.toast THEN "UpstreamError"
    ELSE "none"

\* no error control, no continuation control, the page open
Quiet(pg, dom) == ~pg.closed /\ CheckErrorStates(pg, dom) = "none" /\ ~dom.cont

\* the missing message reported as a timeout
NoMessageAsTimeout == "TimeoutError"

\* throw new Error('No assistant message found after generation completed')
NoMessageError == "NoAssistantMessage"

\* Step 3: lastAssistant.waitFor({ state: 'visible', timeout: 10000 }); then
\* the locals of step 4 are initialised
MsgVisible(i) ==
    /\ Running(i, "msgVisible")
    /\ \/ /\ LastAssistant(ui) # 0
          /\ LET p == [proc[i] EXCEPT !.startTime = proc[i].now, !.lastText = <<>>,
                                      !.target = LastAssistant(ui),
                                      !.stableMs = 0, !.sinceClick = 0, !.same = 0,
                                      !.quiet = Quiet(page, ui) /\ ReadLastText(ui) # <<>>]
             IN  Goes(i, [p EXCEPT !.pc = LoopPc(p, req[i].timeout)])
       \/ /\ LastAssistant(ui) = 0
          /\ Throw(i, NoMessageError, "ERROR")
    /\ UNCHANGED <<plain, ses, storage, loc, health, gone, daemon, page, ui, order, req, started, uiBudget, reqBudget>>

\* a loop that lets a text about to complete the threshold outrank an error
PollErrorUnlessRipe(p, pg, dom) == IF Ripe(p, dom) THEN "none" ELSE CheckErrorStates(pg, dom)

\* the poll begins with await checkErrorStates(page), whatever the text
PollError(p, pg, dom) == CheckErrorStates(pg, dom)

\* Step 4, first part of a poll: await checkErrorStates(page)
CheckErr(i) ==
    /\ Running(i, "checkErr")
    /\ \/ /\ PollError(proc[i], page, ui) = "none"
          /\ Goes(i, [proc[i] EXCEPT !.pc = "checkCont"])
       \/ /\ PollError(proc[i], page, ui) # "none"
          /\ Throw(i, PollError(proc[i], page, ui), "ERROR")
    /\ UNCHANGED <<plain, ses, storage, loc, health, gone, daemon, page, ui, order, req, started, uiBudget, reqBudget>>

\* the continue-button branch without its stableMs = 0
ContinueKeeps(stableMs) == stableMs

\* the continue-button branch: click, stableMs = 0, sleep 500, continue
ContinueReset(stableMs) == 0

\* a loop that waits again for the generation to end when the busy
\* indicator shows after the click
AfterContinueRewait(p, dom, timeout) ==
    IF dom.stop THEN "generating" ELSE LoopPc(p, timeout)

\* continue: back to the loop condition, whatever the page shows
AfterContinue(p, dom, timeout) == LoopPc(p, timeout)

CheckCont(i) ==
    /\ Running(i, "checkCont")
    /\ \/ /\ ui.cont
          /\ LET p == [proc[i] EXCEPT !.stableMs = ContinueReset(@), !.sinceClick = 0, !.same = 0,
                                      !.clicked = TRUE, !.now = @ + ContinueSleepMs]
             IN  Goes(i, [p EXCEPT !.pc = AfterContinue(p, ui, req[i].timeout)])
       \/ /\ ~ui.cont
          /\ Goes(i, [proc[i] EXCEPT !.pc = "read"])
    /\ UNCHANGED <<plain, ses, storage, loc, health, gone, daemon, page, ui, order, req, started, uiBudget, reqBudget>>

\* the text comparison of a poll and the sleep that ends it
Read(i) ==
    /\ Running(i, "read")
    /\ LET currentText == ReadLastText(ui)
           p == proc[i]
       IN
       \/ /\ SameText(currentText, p.lastText)
          /\ Stabilized(p.stableMs + PollMs)
          /\ Return(i, currentText, "DONE")
       \/ /\ SameText(currentText, p.lastText)
          /\ ~Stabilized(p.stableMs + PollMs)
          /\ ~page.closed
          /\ LET q == [p EXCEPT !.stableMs = @ + PollMs, !.sinceClick = @ + PollMs,
                                !.same = @ + 1,
                                !.now = @ + PollMs]
             IN  Goes(i, [q EXCEPT !.pc = LoopPc(q, req[i].timeout)])
       \/ /\ ~SameText(currentText, p.lastText)
          /\ ~page.closed
          /\ LET q == [p EXCEPT !.stableMs = 0, !.sinceClick = 0, !.same = 0,
                                !.lastText = currentText, !.now = @ + PollMs]
             IN  Goes(i, [q EXCEPT !.pc = LoopPc(q, req[i].timeout)])
       \/ /\ page.closed
          /\ Throw(i, "TargetClosed", "ERROR")
    /\ UNCHANGED <<plain, ses, storage, loc, health, gone, daemon, page, ui, order, req, started, uiBudget, reqBudget>>

\* the timeout path throwing whatever the final read holds
FinalOutcomeStrict(finalText) ==
    [ok |-> FALSE, text |-> <<>>, err |-> "TimeoutError", via |-> "TIMEOUT"]

\* if (finalText) return finalText; throw new Error('Timeout waiting ...')
FinalOutcome(finalText) ==
    IF finalText # <<>>
    THEN [ok |-> TRUE, text |-> finalText, err |-> "none", via |-> "TIMEOUT"]
    ELSE [ok |-> FALSE, text |-> <<>>, err |-> "TimeoutError", via |-> "TIMEOUT"]

\* after the loop: the final read, partial text or the timeout error
Final(i) ==
    /\ Running(i, "final")
    /\ Finish(i, FinalOutcome(ReadLastText(ui)))
    /\ UNCHANGED <<plain, ses, storage, loc, health, gone, daemon, page, ui, order, req, started, uiBudget, reqBudget>>

\* the state of the completion detector, in the words of its state machine
DetState(p) ==
    CASE p.pc = "awaitStart" -> "AWAITING_START"
      [] p.pc = "generating" -> "GENERATING"
      [] p.pc \in {"msgVisible", "checkErr", "checkCont", "read"} -> "STABILIZING"
      [] p.pc = "final" -> "TIMEOUT"
      [] OTHER -> "none"

\* ------------------------------------------------------------ the page's own
\* changes: the application renders, streams, shows and hides controls
InLoop(p) == p.pc \in {"checkErr", "checkCont", "read", "final"}

\* a change of the page seen by the requests in flight
Observed(pg, dom) ==
    [i \in Ids |->
        IF InLoop(proc[i])
        THEN [proc[i] EXCEPT
                 !.quiet = @ /\ Quiet(pg, dom) /\ ReadLastText(dom) = ReadLastText(ui)]
        ELSE IF proc[i].pc = "submit"
        THEN [proc[i] EXCEPT !.moved = @ \/ AssistantCount(dom) # AssistantCount(ui)]
        ELSE proc[i]]

DomChange(dom) ==
    /\ daemon = "ready"
    /\ ~page.closed
    /\ uiBudget > 0
    /\ dom # ui
    /\ ui' = dom
    /\ uiBudget' = uiBudget - 1
    /\ proc' = Observed(page, dom)
    /\ UNCHANGED <<plain, ses, storage, loc, health, gone, daemon, page, order, chain, slot, settles, req, resp,
                   started, settled, reqBudget, last>>

UIStop == DomChange([ui EXCEPT !.stop = ~@])
UILogin == DomChange([ui EXCEPT !.login = ~@])
UIToast ==
    \/ ui.toast /\ DomChange([ui EXCEPT !.toast = FALSE, !.banner = <<>>])
    \/ ~ui.toast /\ \E b \in BannerTexts : DomChange([ui EXCEPT !.toast = TRUE, !.banner = b])
UIContinue == DomChange([ui EXCEPT !.cont = ~@])
UIComposer == DomChange([ui EXCEPT !.composer = ~@])
UISend == \E s \in {"hidden", "disabled", "enabled"} : DomChange([ui EXCEPT !.send = s])

UIRender ==
    /\ Len(ui.msgs) < MaxMsgs
    /\ \E t \in Texts : DomChange([ui EXCEPT !.msgs = Append(@, t)])

UIStream ==
    /\ ui.msgs # <<>>
    /\ \E t \in Texts : DomChange([ui EXCEPT !.msgs[Len(ui.msgs)] = t])

UIUrl ==
    /\ daemon = "ready"
    /\ ~page.closed
    /\ uiBudget > 0
    /\ \E u \in {"chat", "auth"} :
         /\ u # page.url
         /\ page' = [page EXCEPT !.url = u]
         /\ proc' = Observed(page', ui)
    /\ uiBudget' = uiBudget - 1
    /\ UNCHANGED <<plain, ses, storage, loc, health, gone, daemon, ui, order, chain, slot, settles, req, resp,
                   started, settled, reqBudget, last>>

UIClose ==
    /\ daemon = "ready"
    /\ ~page.closed
    /\ uiBudget > 0
    /\ page' = [page EXCEPT !.closed = TRUE]
    /\ ui' = GoneDom
    /\ uiBudget' = uiBudget - 1
    /\ proc' = Observed(page', GoneDom)
    /\ UNCHANGED <<plain, ses, storage, loc, health, gone, daemon, order, chain, slot, settles, req, resp,
                   started, settled, reqBudget, last>>

\* a page that never settles: the continuation control and the text of the
\* last message change as often as they like
DomFlux(dom) ==
    /\ daemon = "ready"
    /\ ~page.closed
    /\ dom # ui
    /\ ui' = dom
    /\ proc' = Observed(page, dom)
    /\ UNCHANGED <<plain, ses, storage, loc, health, gone, daemon, page, order, chain, slot, settles,
                   req, resp, started, settled, uiBudget, reqBudget, last>>

\* the texts a reply alternates between while it never stops changing
FluxTexts == {<<"4">>, <<"4", "2">>}

FluxContinue == DomFlux([ui EXCEPT !.cont = ~@])
FluxStream ==
    /\ ui.msgs # <<>>
    /\ \E t \in FluxTexts : DomFlux([ui EXCEPT !.msgs[Len(ui.msgs)] = t])

\* -------------------------------------------------------------- handleRequest
NextId == CHOOSE i \in Ids : req[i].kind = "none" /\ \A j \in 1..(i - 1) : req[j].kind # "none"

\* POST /ask up to the await of queueRequest
\* a handler that takes its place in the queue before looking at the body
OrderOnArrival(q, i) == Append(q, i)

\* both 400 replies return before queueRequest is called
OrderOnReject(q, i) == q

HandleAsk ==
    /\ daemon = "ready"
    /\ reqBudget > 0
    /\ reqBudget' = reqBudget - 1
    /\ LET i == NextId IN
       \/ /\ req' = [req EXCEPT ![i] = [NoReqData EXCEPT !.kind = "invalid"]]
          /\ resp' = [resp EXCEPT ![i] =
                 [status |-> 400, ok |-> FALSE, text |-> <<>>, error |-> "Invalid JSON"]]
          /\ order' = OrderOnReject(order, i)
          /\ UNCHANGED <<chain, slot, proc, daemon, page, ui>>
       \/ /\ req' = [req EXCEPT ![i] = [NoReqData EXCEPT !.kind = "noprompt"]]
          /\ resp' = [resp EXCEPT ![i] =
                 [status |-> 400, ok |-> FALSE, text |-> <<>>, error |-> "Missing prompt"]]
          /\ order' = OrderOnReject(order, i)
          /\ UNCHANGED <<chain, slot, proc, daemon, page, ui>>
       \/ \* the body is the JSON text null: data.prompt throws a TypeError
          \* outside any try, the handler's promise rejects unhandled, and
          \* the unhandledRejection listener runs shutdown()
          /\ req' = [req EXCEPT ![i] = [NoReqData EXCEPT !.kind = "null"]]
          /\ daemon' = "down"
          /\ page' = [page EXCEPT !.closed = TRUE]
          /\ ui' = GoneDom
          /\ proc' = Observed(page', GoneDom)
          /\ UNCHANGED <<order, chain, slot, resp>>
       \/ \E t \in Timeouts, nc \in BOOLEAN :
            /\ req' = [req EXCEPT ![i] = [kind |-> "ask", timeout |-> t, newChat |-> nc]]
            /\ order' = Append(order, i)
            /\ chain' = [chain EXCEPT ![i] = "pending"]
            /\ slot' = [slot EXCEPT ![i] = [NoSlot EXCEPT !.state = "pending"]]
            /\ proc' = [proc EXCEPT ![i] = [NoProc EXCEPT !.pc = "queued"]]
            /\ UNCHANGED <<resp, daemon, page, ui>>
    /\ UNCHANGED <<plain, ses, storage, loc, health, gone, settles, started, settled, uiBudget, last>>

\* ------------------------------------------------- GET /health and callers
\* a health request served on a connection only while the daemon is idle
HealthReadyIdle ==
    daemon = "ready" /\ \A i \in Ids : proc[i].pc \in {"none", "done"}

\* the server accepts requests from listen() to server.close()
HealthReady == daemon = "ready"

\* if (req.method === 'GET' && req.url === '/health'): answered at once
Health ==
    /\ HealthReady
    /\ health.n < MaxHealth
    /\ health' = [n |-> health.n + 1, status |-> 200, ok |-> TRUE, state |-> "ready",
                   inflight |-> \E i \in Ids : proc[i].pc \notin {"none", "queued", "done"},
                   queued |-> \E i \in Ids : proc[i].pc = "queued",
                   failed |-> \E i \in Ids : slot[i].state = "rejected"]
    /\ UNCHANGED <<plain, ses, storage, daemon, page, ui, order, chain, slot, settles, req, proc, resp,
                   started, settled, uiBudget, reqBudget, last, loc, gone>>

\* if (req.method === 'OPTIONS'): 204, answered at once
Options ==
    /\ HealthReady
    /\ plain.n < MaxPlain
    /\ plain' = [n |-> plain.n + 1, status |-> 204]
    /\ UNCHANGED <<ses, storage, daemon, page, ui, order, chain, slot, settles, req, proc, resp,
                   started, settled, uiBudget, reqBudget, last, loc, gone, health>>

\* any other method or route: 404 { ok: false, error: 'Not found' }
NotFound ==
    /\ HealthReady
    /\ plain.n < MaxPlain
    /\ plain' = [n |-> plain.n + 1, status |-> 404]
    /\ UNCHANGED <<ses, storage, daemon, page, ui, order, chain, slot, settles, req, proc, resp,
                   started, settled, uiBudget, reqBudget, last, loc, gone, health>>

\* the request of a caller that went away dropped while it waits its turn
OnCloseAbort(p) == IF p.pc = "queued" THEN [p EXCEPT !.pc = "done"] ELSE p

\* handleRequest and queueRequest register no listener for the caller's
\* connection: the request is as it was
OnClose(p) == p

\* the caller of request i gives up: its deadline fires or it disconnects
Disconnect(i) ==
    /\ daemon = "ready"
    /\ req[i].kind = "ask"
    /\ resp[i].status = 0
    /\ ~gone[i]
    /\ gone' = [gone EXCEPT ![i] = TRUE]
    /\ proc' = [proc EXCEPT ![i] = OnClose(@)]
    /\ UNCHANGED <<plain, ses, storage, daemon, page, ui, order, chain, slot, settles, req, resp,
                   started, settled, uiBudget, reqBudget, last, loc, health>>

\* -------------------------------------------------------- locator resolution
\* a role's candidate selectors, by index in their list; an element of the
\* document is the set of candidates it matches
Cands == 1..MaxCands
Elements == SUBSET Cands

\* the candidates joined with ', ' form one selector list: an element
\* matches it when it matches any candidate
MatchesList(el) == el # {}

\* page.locator(list.join(', ')).first(): the first element, in document
\* order, that matches the selector list (0: none)
First(d) ==
    IF \E n \in 1..Len(d) : MatchesList(d[n])
    THEN CHOOSE n \in 1..Len(d) :
             /\ MatchesList(d[n])
             /\ \A k \in 1..(n - 1) : ~MatchesList(d[k])
    ELSE 0

\* the application renders one more element at the end of the document
LocRender ==
    /\ Len(loc.doc) < MaxElems
    /\ \E el \in Elements : loc' = [doc |-> Append(loc.doc, el), found |-> 0]
    /\ UNCHANGED <<plain, ses, storage, daemon, page, ui, order, chain, slot, settles, req, proc, resp,
                   started, settled, uiBudget, reqBudget, last, health, gone>>

\* an action on the locator resolves it against the document as it is
LocResolve ==
    /\ loc.found = 0
    /\ First(loc.doc) # 0
    /\ loc' = [loc EXCEPT !.found = First(loc.doc)]
    /\ UNCHANGED <<plain, ses, storage, daemon, page, ui, order, chain, slot, settles, req, proc, resp,
                   started, settled, uiBudget, reqBudget, last, health, gone>>

\* ------------------------------------------------------ session discovery
\* parent process ids, the texts a runtime file may hold, the values of
\* TMUX and TMUX_PANE, and the names a pane-map file may have
Pids == {1, 2}
SesTexts == {<<"a">>, <<" ", "b", " ">>}
TmuxVals == {<<>>, <<"/", "t", "/", "d", ",", "1">>, <<"d", "/">>}
PaneVals == {<<"%", "3">>, <<"3">>}
PaneNames == {<<"d", "-", "3">>, <<"d", "-", "%", "3">>}
EnvVals(vals) == {[set |-> FALSE, val |-> <<>>]} \cup {[set |-> TRUE, val |-> v] : v \in vals}

\* a directory of ~/.claude/runtime: a function from the names of the files
\* it holds to their contents
Dirs(names) == UNION {[D -> SesTexts] : D \in SUBSET names}

\* tmux.split(',')[0]
RECURSIVE SplitFirst(_)
SplitFirst(t) ==
    IF t = <<>> \/ Head(t) = "," THEN <<>> ELSE <<Head(t)>> \o SplitFirst(Tail(t))

RECURSIVE StripSlashes(_)
StripSlashes(t) ==
    IF t # <<>> /\ t[Len(t)] = "/" THEN StripSlashes(SubSeq(t, 1, Len(t) - 1)) ELSE t

RECURSIVE AfterLastSlash(_)
AfterLastSlash(t) ==
    IF \E k \in 1..Len(t) : t[k] = "/" THEN AfterLastSlash(Tail(t)) ELSE t

\* path.basename
Basename(t) == AfterLastSlash(StripSlashes(t))

\* tmuxPane.replace('%', ''): the first occurrence only
RECURSIVE ReplacePercent(_)
ReplacePercent(t) ==
    IF t = <<>> THEN <<>>
    ELSE IF Head(t) = "%" THEN Tail(t)
    ELSE <<Head(t)>> \o ReplacePercent(Tail(t))

\* `${socketName}-${paneNum}`
PaneKey(tmux, tmuxPane) == Basename(SplitFirst(tmux)) \o <<"-">> \o ReplacePercent(tmuxPane)

\* tmux && tmuxPane
InTmux(tmux, tmuxPane) == tmux.set /\ tmux.val # <<>> /\ tmuxPane.set /\ tmuxPane.val # <<>>

\* discoverSessionId looking in the pane-map before the ppid-map
DiscoverPaneFirst(e) ==
    LET key == PaneKey(e.tmux.val, e.tmuxPane.val) IN
    IF InTmux(e.tmux, e.tmuxPane) /\ key \in DOMAIN e.paneMap
    THEN [out |-> [null |-> FALSE, val |-> Trim(e.paneMap[key])],
          probes |-> <<<<"pane-map", key>>>>]
    ELSE IF e.ppid \in DOMAIN e.ppidMap
    THEN [out |-> [null |-> FALSE, val |-> Trim(e.ppidMap[e.ppid])],
          probes |-> <<<<"ppid-map", e.ppid>>>>]
    ELSE [out |-> [null |-> TRUE, val |-> <<>>], probes |-> <<>>]

\* discoverSessionId: the result and the paths given to fs.existsSync, in
\* order
DiscoverSessionId(e) ==
    LET key == PaneKey(e.tmux.val, e.tmuxPane.val) IN
    IF e.ppid \in DOMAIN e.ppidMap
    THEN [out |-> [null |-> FALSE, val |-> Trim(e.ppidMap[e.ppid])],
          probes |-> <<<<"ppid-map", e.ppid>>>>]
    ELSE IF InTmux(e.tmux, e.tmuxPane)
    THEN IF key \in DOMAIN e.paneMap
         THEN [out |-> [null |-> FALSE, val |-> Trim(e.paneMap[key])],
               probes |-> <<<<"ppid-map", e.ppid>>, <<"pane-map", key>>>>]
         ELSE [out |-> [null |-> TRUE, val |-> <<>>],
               probes |-> <<<<"ppid-map", e.ppid>>, <<"pane-map", key>>>>]
    ELSE [out |-> [null |-> TRUE, val |-> <<>>], probes |-> <<<<"ppid-map", e.ppid>>>>]

\* the runtime files and the caller's ppid and tmux variables, as some
\* hook and shell left them
SesSetup ==
    /\ ses.pc = "idle"
    /\ \E pm \in Dirs(Pids), nm \in Dirs(PaneNames), pp \in Pids,
          tm \in EnvVals(TmuxVals), tp \in EnvVals(PaneVals) :
         ses' = [NoSes EXCEPT !.pc = "set", !.ppidMap = pm, !.paneMap = nm, !.ppid = pp,
                              !.tmux = tm, !.tmuxPane = tp]
    /\ UNCHANGED <<plain, storage, daemon, page, ui, order, chain, slot, settles, req, proc, resp,
                   started, settled, uiBudget, reqBudget, last, loc, health, gone>>

\* one call of discoverSessionId
SesDiscover ==
    /\ ses.pc = "set"
    /\ ses' = [ses EXCEPT !.pc = "returned",
                          !.out = DiscoverSessionId(ses).out,
                          !.probes = DiscoverSessionId(ses).probes]
    /\ UNCHANGED <<plain, storage, daemon, page, ui, order, chain, slot, settles, req, proc, resp,
                   started, settled, uiBudget, reqBudget, last, loc, health, gone>>

\* ------------------------------------------------------------------- Next
Next ==
    \/ Main
    \/ HandleAsk
    \/ \E i \in Ids : ProcessStart(i)
    \/ \E i \in Ids : Acquire(i)
    \/ \E i \in Ids : NewChat(i)
    \/ \E i \in Ids : Composer(i)
    \/ \E i \in Ids : Fill(i)
    \/ \E i \in Ids : Count(i)
    \/ \E i \in Ids : Submit(i)
    \/ \E i \in Ids : SubmitFallback(i)
    \/ \E i \in Ids : AwaitStart(i)
    \/ \E i \in Ids : Generating(i)
    \/ \E i \in Ids : MsgVisible(i)
    \/ \E i \in Ids : CheckErr(i)
    \/ \E i \in Ids : CheckCont(i)
    \/ \E i \in Ids : Read(i)
    \/ \E i \in Ids : Final(i)
    \/ UIStop \/ UILogin \/ UIToast \/ UIContinue \/ UIComposer \/ UISend
    \/ UIRender \/ UIStream \/ UIUrl \/ UIClose

Spec == Init /\ [][Next]_vars

DetSpec == DetInit /\ [][Next]_vars

\* the daemon with health requests and callers that give up
SrvInit == Boot /\ uiBudget = MaxSrvEvents /\ reqBudget = MaxReq

\* the page, for this view of the daemon, only renders messages or closes
SrvNext ==
    \/ Main
    \/ HandleAsk
    \/ Health
    \/ Options
    \/ NotFound
    \/ \E i \in Ids : Disconnect(i)
    \/ \E i \in Ids : ProcessStart(i)
    \/ \E i \in Ids : Acquire(i)
    \/ \E i \in Ids : NewChat(i)
    \/ \E i \in Ids : Composer(i)
    \/ \E i \in Ids : Fill(i)
    \/ \E i \in Ids : Count(i)
    \/ \E i \in Ids : Submit(i)
    \/ \E i \in Ids : SubmitFallback(i)
    \/ \E i \in Ids : AwaitStart(i)
    \/ \E i \in Ids : Generating(i)
    \/ \E i \in Ids : MsgVisible(i)
    \/ \E i \in Ids : CheckErr(i)
    \/ \E i \in Ids : CheckCont(i)
    \/ \E i \in Ids : Read(i)
    \/ \E i \in Ids : Final(i)
    \/ UIRender \/ UIClose

SrvSpec == SrvInit /\ [][SrvNext]_vars

\* locator resolution alone: documents of up to MaxElems elements
LocInit == Boot /\ uiBudget = 0 /\ reqBudget = 0

LocNext == LocRender \/ LocResolve

LocSpec == LocInit /\ [][LocNext]_vars

\* session discovery alone
SesInit == Boot /\ uiBudget = 0 /\ reqBudget = 0

SesNext == SesSetup \/ SesDiscover

SesSpec == SesInit /\ [][SesNext]_vars

\* the steps of request i, each the continuation of an awaited call
Step(i) ==
    \/ ProcessStart(i) \/ Acquire(i) \/ NewChat(i) \/ Composer(i) \/ Fill(i) \/ Count(i)
    \/ Submit(i) \/ SubmitFallback(i) \/ AwaitStart(i) \/ Generating(i) \/ MsgVisible(i)
    \/ CheckErr(i) \/ CheckCont(i) \/ Read(i) \/ Final(i)

\* the daemon over a page that may change for ever: MaxLiveEvents messages
\* rendered or switches of the busy indicator, the continuation control
\* and the text in flux
LiveInit == Boot /\ uiBudget = MaxLiveEvents /\ reqBudget = MaxReq

LiveNext ==
    \/ Main
    \/ HandleAsk
    \/ \E i \in Ids : Step(i)
    \/ UIRender
    \/ UIStop
    \/ FluxContinue
    \/ FluxStream

\* every awaited Playwright call settles within its timeout and Node then
\* runs the continuation: a step that stays possible is taken
LiveSpec == LiveInit /\ [][LiveNext]_vars /\ \A i \in Ids : WF_vars(Step(i))

\* =================================================================== claims
InFlight(i) == proc[i].pc \notin {"none", "queued", "done"}
Settled(i) == slot[i].state \in {"resolved", "rejected"}
Enqueued(i) == \E n \in 1..Len(order) : order[n] = i
Position(i) == CHOOSE n \in 1..Len(order) : order[n] = i
IsPrefix(a, b) == Len(a) <= Len(b) /\ a = SubSeq(b, 1, Len(a))

\* C1: while processRequest runs for a request, every request enqueued
\* before it has its result settled and no other request is in flight
C1_SingleFlight ==
    \A i \in Ids : InFlight(i) =>
        /\ \A j \in Ids : (Enqueued(j) /\ Position(j) < Position(i)) => Settled(j)
        /\ \A j \in Ids \ {i} : ~InFlight(j)

\* the second request is being processed, the first has settled
C1_Witness ==
    /\ Len(order) = 2
    /\ InFlight(order[2])
    /\ Settled(order[1])

\* C2: requests start, and settle, in the order of their queueRequest calls
C2_Fifo == IsPrefix(started, order) /\ IsPrefix(settled, order)

\* two requests were queued together and both have settled
C2_Witness ==
    /\ Len(order) = 2
    /\ settled = order
    /\ last.via = "DONE"

\* C3: a step that rejects a request's result leaves the chain fulfilled,
\* leaves an open page as it is, touches no other request, and a request
\* queued behind a settled one can always start
C3_RejectionIsolated ==
    /\ [](\A j \in Ids : (proc[j].pc = "queued" /\ Pred(j) # 0 /\ Settled(Pred(j)))
              => ChainReady(j))
    /\ [][\A i \in Ids : (slot[i].state = "pending" /\ slot'[i].state = "rejected") =>
              /\ chain'[i] = "fulfilled"
              /\ (~page.closed => page' = page)
              /\ \A j \in Ids \ {i} : proc'[j] = proc[j] /\ slot'[j] = slot[j]]_vars

\* the first request was rejected and the second has gone on to submit on
\* the page the daemon opened at startup
C3_Witness ==
    /\ Len(order) = 2
    /\ slot[order[1]].state = "rejected"
    /\ proc[order[2]].pc = "awaitStart"
    /\ page.gen = 1

\* C4: resolve/reject is called exactly once for a request whose processing
\* has ended, never before, and a settled result never changes
C4_SettledOnce ==
    /\ [](\A i \in Ids :
             /\ settles[i] <= 1
             /\ (proc[i].pc = "done" <=> Settled(i))
             /\ (Settled(i) => settles[i] = 1)
             /\ (slot[i].state = "resolved" => slot[i].err = "none")
             /\ (slot[i].state = "rejected" => slot[i].err # "none" /\ slot[i].text = <<>>))
    /\ [][\A i \in Ids : Settled(i) => slot'[i] = slot[i]]_vars

\* one request resolved with text and another rejected
C4_Witness ==
    \E i, j \in Ids :
        /\ slot[i].state = "resolved" /\ slot[i].text # <<>> /\ settles[i] = 1
        /\ slot[j].state = "rejected" /\ settles[j] = 1

\* ------------------------------------------------- the completion detector
\* the step ends the processRequest call of i
Ends(i) == proc[i].pc # "done" /\ proc'[i].pc = "done"
Ok200(i, text) ==
    /\ slot'[i] = [state |-> "resolved", text |-> text, err |-> "none"]
    /\ resp'[i] = [status |-> 200, ok |-> TRUE, text |-> text, error |-> "none"]
Err500(i, err) ==
    /\ slot'[i] = [state |-> "rejected", text |-> <<>>, err |-> err]
    /\ resp'[i] = [status |-> 500, ok |-> FALSE, text |-> <<>>, error |-> err]

C6_PartialIsSuccess ==
    [][\A i \in Ids :
          (proc[i].pc = "final" /\ Ends(i) /\ ReadLastText(ui) # <<>>) =>
              /\ last'.via = "TIMEOUT"
              /\ Ok200(i, ReadLastText(ui))]_vars

\* a request answered 200 with the text of the timeout path's final read
C6_Witness ==
    /\ last.via = "TIMEOUT"
    /\ slot[last.id].state = "resolved"
    /\ resp[last.id].status = 200 /\ resp[last.id].text = slot[last.id].text

C8_LoginNeverReturnsText ==
    [][\A i \in Ids :
          (InLoop(proc[i]) /\ Ends(i) /\ LoginShown(page, ui)) =>
              Err500(i, "SessionExpired")]_vars

\* C8 amended: a poll whose error check runs while the login control (or
\* the authentication location) is showing ends the request with
\* SessionExpired and no text
C8_LoginAtCheck ==
    [][\A i \in Ids :
          (proc[i].pc = "checkErr" /\ proc'[i].pc # "checkErr" /\ LoginShown(page, ui)) =>
              Err500(i, "SessionExpired")]_vars

\* a request rejected with SessionExpired because of the login control
C8_Witness ==
    /\ last.id # 0 /\ slot[last.id].err = "SessionExpired"
    /\ ui.login /\ page.url # "auth"

C10_SingleDeadline ==
    \A i \in Ids :
        DetState(proc[i]) \in {"GENERATING", "STABILIZING"} =>
            proc[i].now < req[i].timeout

\* ------------------------------------------------------ locator resolution
\* the candidate of highest priority that matches anything in the document
BestCand(d) ==
    CHOOSE c \in Cands :
        /\ \E n \in 1..Len(d) : c \in d[n]
        /\ \A b \in 1..(c - 1) : \A n \in 1..Len(d) : b \notin d[n]

\* C11: the element a resolution returns matches the first candidate, in
\* priority order, that matches any element of the document
C11_FirstCandidateWins ==
    loc.found # 0 => BestCand(loc.doc) \in loc.doc[loc.found]

\* --------------------------------------------------- the tracked message
\* the step is a text read of request i: the read of a poll or the final read
Reads(i) ==
    /\ proc[i].pc \in {"read", "final"}
    /\ proc'[i].pc # proc[i].pc
    /\ ~page.closed

\* C12: every text read of a request reads the message that was the last
\* assistant message when the stabilisation began
C12_SameMessageEveryRead ==
    [][\A i \in Ids : Reads(i) => LastAssistant(ui) = proc[i].target]_vars

\* ------------------------------------------------------------ POST /ask
\* the handler of request i has run to its end
Handled(i) ==
    \/ req[i].kind \in {"invalid", "noprompt", "null"}
    \/ req[i].kind = "ask" /\ proc[i].pc = "done"

\* C13: a POST /ask whose handler has ended has been answered: 400 for a
\* body that is not JSON, 400 for a body without a prompt, 200 with the
\* text or 500 with the error for a queued request
C13_OneResponsePerAsk ==
    \A i \in Ids : Handled(i) =>
        /\ req[i].kind = "invalid" =>
               (resp[i].status = 400 /\ resp[i].error = "Invalid JSON")
        /\ req[i].kind \in {"noprompt", "null"} =>
               (resp[i].status = 400 /\ resp[i].error = "Missing prompt")
        /\ req[i].kind = "ask" => resp[i] = WriteResponse(slot[i])
        /\ resp[i].status \in {200, 400, 500}

\* ------------------------------------------------------------ GET /health
\* C14: while the daemon serves, a health request can be answered whatever
\* the queue is doing, its reply is 200 { ok: true, status: 'ready' }, and
\* writing it changes nothing else
C14_HealthAlwaysReady ==
    /\ []((daemon = "ready" /\ health.n < MaxHealth) => ENABLED Health)
    /\ [][health' # health =>
              /\ health'.status = 200 /\ health'.ok /\ health'.state = "ready"
              /\ UNCHANGED <<daemon, page, ui, order, chain, slot, settles, req,
                             proc, resp, started, settled, last>>]_vars

\* a health reply written while one request was in flight and another
\* waited in the queue
C14_Witness ==
    /\ health.n = 1 /\ health.status = 200
    /\ health.inflight /\ health.queued

\* ------------------------------------------------------- the start wait
\* C15: the start wait never ends the request: seen or not, the detector
\* goes on to GENERATING, after the whole sub-timeout when the indicator
\* was not there
C15_StartTimeoutProceeds ==
    [][\A i \in Ids :
          (proc[i].pc = "awaitStart" /\ proc'[i].pc # "awaitStart") =>
              /\ proc'[i].pc = "generating"
              /\ slot'[i] = slot[i] /\ resp'[i] = resp[i]
              /\ proc'[i].busy = IF ui.stop THEN "seen" ELSE "unseen"
              /\ (~ui.stop /\ ~page.closed) => proc'[i].now = proc[i].now + StartWaitMs]_vars

\* DONE with text for a request whose busy indicator was never observed
C15_Witness ==
    /\ last.via = "DONE" /\ last.busy = "absent"
    /\ slot[last.id].state = "resolved" /\ slot[last.id].text # <<>>

\* ------------------------------------------------ the busy indicator gone
\* C16: the detector is in STABILIZING only after the generation wait saw
\* the busy indicator absent, and no poll returns DONE while the indicator
\* is visible
C16_IdleBeforeStable ==
    /\ [](\A i \in Ids :
             DetState(proc[i]) = "STABILIZING" => proc[i].busy \in {"gone", "absent"})
    /\ [][\A i \in Ids :
             (proc[i].pc = "read" /\ Ends(i) /\ slot'[i].state = "resolved") => ~ui.stop]_vars

\* ------------------------------------------------------ the failure kinds
\* the five kinds of the taxonomy, a failed fill or submit action counted
\* as SubmissionFailed
Taxonomy ==
    {"ComposerNotFound", "ActionTimeout", "SessionExpired", "UpstreamError",
     "TimeoutError"}

\* the failures each step of processRequest can end the request with
FailuresAt(pc) ==
    CASE pc = "acquire" -> {"NavigationError", "BrowserClosed"}
      [] pc = "newchat" -> {"NavigationError"}
      [] pc = "composer" -> {"ComposerNotFound", "TargetClosed"}
      [] pc \in {"fill", "submit"} -> {"ActionTimeout", "TargetClosed"}
      [] pc = "count" -> {"TargetClosed"}
      [] pc = "msgVisible" -> {"NoAssistantMessage"}
      [] pc = "checkErr" -> {"SessionExpired", "UpstreamError"}
      [] pc = "read" -> {"TargetClosed"}
      [] pc = "final" -> {"TimeoutError"}
      [] OTHER -> {}

\* C17 as stated: a failure that ends a request during submission or
\* detection, on a page that is still open, is one of the five kinds
C17_OnlyTaxonomyFailures ==
    [][\A i \in Ids :
          (Ends(i) /\ slot'[i].state = "rejected" /\ ~page.closed
             /\ proc[i].pc \notin {"acquire", "newchat"}) =>
              slot'[i].err \in Taxonomy]_vars

\* C17 amended: a request fails only with the failures of the step it is
\* at; besides the five kinds these are the missing assistant message
\* after the generation wait and the errors of a closed or unloadable page
C17_FailuresByStep ==
    [][\A i \in Ids :
          (Ends(i) /\ slot'[i].state = "rejected") =>
              /\ slot'[i].err \in FailuresAt(proc[i].pc)
              /\ resp'[i].error = slot'[i].err]_vars

\* a request that failed because no assistant message was on the page
C17_Witness ==
    /\ last.id # 0 /\ slot[last.id].err = "NoAssistantMessage"
    /\ resp[last.id].status = 500 /\ ~page.closed

\* ----------------------------------------------------------- no retries
\* the place of a step in processRequest; the steps of a poll share one
Rank(pc) ==
    CASE pc = "none" -> 0
      [] pc = "queued" -> 1
      [] pc = "acquire" -> 2
      [] pc = "newchat" -> 3
      [] pc = "composer" -> 4
      [] pc = "fill" -> 5
      [] pc = "count" -> 6
      [] pc = "submit" -> 7
      [] pc = "awaitStart" -> 8
      [] pc = "generating" -> 9
      [] pc = "msgVisible" -> 10
      [] pc \in {"checkErr", "checkCont", "read"} -> 11
      [] pc = "final" -> 12
      [] OTHER -> 13

\* C18: a request is started at most once and submits its prompt at most
\* once, its processing only moves forward, an error found by the error
\* check ends it on the spot with that error, and an ended request stays
\* as it ended
C18_NoRetry ==
    /\ [](/\ \A m, n \in 1..Len(started) : started[m] = started[n] => m = n
          /\ \A i \in Ids : proc[i].submits <= 1)
    /\ [][\A i \in Ids :
             /\ Rank(proc'[i].pc) >= Rank(proc[i].pc)
             /\ (proc[i].pc = "checkErr" /\ proc'[i].pc # "checkErr"
                   /\ CheckErrorStates(page, ui) # "none") =>
                    (Ends(i) /\ Err500(i, CheckErrorStates(page, ui)))
             /\ proc[i].pc = "done" =>
                    (proc'[i] = proc[i] /\ slot'[i] = slot[i] /\ resp'[i] = resp[i])]_vars

\* the first request ended with SessionExpired, and the second has been
\* processed to its end after it
C18_Witness ==
    /\ Len(started) = 2
    /\ slot[started[1]].err = "SessionExpired"
    /\ settles[started[1]] = 1
    /\ proc[started[2]].pc = "done"

\* ------------------------------------------------- callers that give up
\* C19: entries never leave the queue; a caller giving up changes nothing
\* of the queue, the requests or the page; its request, once its turn has
\* come, can start like any other; and nothing is in flight next to it
\* until its processing has ended
C19_NoAbort ==
    /\ [](\A i \in Ids :
             /\ (gone[i] /\ proc[i].pc = "queued" /\ ChainReady(i))
                    => ENABLED ProcessStart(i)
             /\ (gone[i] /\ InFlight(i)) => \A j \in Ids \ {i} : ~InFlight(j))
    /\ [][/\ IsPrefix(order, order')
          /\ gone' # gone =>
                 UNCHANGED <<daemon, page, ui, order, chain, slot, settles, req,
                             proc, resp, started, settled, last>>]_vars

\* the caller of the first request gave up before it had ended; the
\* request was still processed to a result, and only then the second began
C19_Witness ==
    /\ Len(order) = 2
    /\ gone[order[1]]
    /\ slot[order[1]].state = "resolved"
    /\ InFlight(order[2])

\* --------------------------------------------------------- the page handle
\* C20: after startup the page handle is replaced only by the page
\* acquisition of a request, when the page is closed and no other request
\* is in flight; and every step a request takes, from page acquisition to
\* its last read, is taken while no other request is in flight
C20_PageOwnedByOneRequest ==
    [][/\ (daemon # "starting" /\ page'.gen # page.gen) =>
              \E i \in Ids :
                  /\ proc[i].pc = "acquire" /\ proc'[i].pc # "acquire"
                  /\ page.closed /\ page'.gen = page.gen + 1
                  /\ \A j \in Ids \ {i} : ~InFlight(j)
       /\ \A i \in Ids :
              (proc'[i].pc # proc[i].pc /\ proc[i].pc \notin {"none", "done"}) =>
                  \A j \in Ids \ {i} :
                      /\ ~InFlight(j)
                      /\ proc'[j].pc \notin {"acquire", "newchat", "composer", "fill",
                                              "count", "submit", "awaitStart", "generating",
                                              "msgVisible", "checkErr", "checkCont", "read",
                                              "final"}]_vars

\* the page was closed and the second request, alone in flight, has
\* created the page it works on
C20_Witness ==
    /\ Len(order) = 2
    /\ page.gen = 2 /\ ~page.closed
    /\ Settled(order[1])
    /\ proc[order[2]].pc = "awaitStart"

\* ------------------------------------------------------- page acquisition
\* C21: page acquisition leaves an open page exactly as it is and goes on;
\* for a closed page it creates one new page, and the request goes on to
\* its submission steps only with that page loaded at the base location
C21_ReuseOrRecreate ==
    [][\A i \in Ids :
          (daemon = "ready" /\ proc[i].pc = "acquire" /\ proc'[i].pc # "acquire") =>
              /\ ~page.closed =>
                     /\ page' = page /\ ui' = ui
                     /\ proc'[i].pc = IF req[i].newChat THEN "newchat" ELSE "composer"
              /\ page.closed =>
                     /\ page'.gen = page.gen + 1 /\ ~page'.closed
                     /\ proc'[i].pc \in {"newchat", "composer", "done"}
                     /\ proc'[i].pc # "done" => (page'.url = "base/" /\ ui' = FreshDom)
                     /\ proc'[i].pc = "done" => Err500(i, "NavigationError")]_vars

\* a request at its composer wait on the page it created after the page
\* opened at startup had been closed
C21_Witness ==
    /\ page.gen = 2 /\ page.url = "base/" /\ ~page.closed
    /\ \E i \in Ids : proc[i].pc = "composer"

\* ------------------------------------------------------ navigateToNewChat
\* C22: navigateToNewChat leaves a page at the base location, with or
\* without the trailing slash, untouched; from any other location it loads
\* the base location in the same page, after which it would change
\* nothing; and only a request with newChat set runs it
C22_NewChatOnlyWhenAway ==
    /\ [](\A i \in Ids : proc[i].pc = "newchat" => req[i].newChat)
    /\ [][\A i \in Ids :
             (proc[i].pc = "newchat" /\ proc'[i].pc # "newchat") =>
                 /\ page.url \in {"base", "base/"} =>
                        (page' = page /\ ui' = ui /\ proc'[i].pc = "composer")
                 /\ (page.url \notin {"base", "base/"} /\ proc'[i].pc = "composer") =>
                        /\ page' = [page EXCEPT !.url = "base/"]
                        /\ ui' = FreshDom
                 /\ proc'[i].pc = "done" =>
                        /\ page.url \notin {"base", "base/"}
                        /\ Err500(i, "NavigationError")
                        /\ page' = page /\ ui' = ui]_vars

\* the first request got its text in a conversation; the second, with
\* newChat, has the same page back at the base location with no messages
C22_Witness ==
    /\ Len(order) = 2
    /\ slot[order[1]].state = "resolved"
    /\ req[order[2]].newChat /\ proc[order[2]].pc = "composer"
    /\ page.gen = 1 /\ page.url = "base/" /\ ui = FreshDom

\* ------------------------------------------------------------- startup
\* C23: with the storage-state file absent at startup the daemon never
\* opens a page, never becomes ready, and takes no /ask and no /health:
\* no request is ever recorded, queued or answered
C23_NoSessionNoService ==
    ~storage =>
        /\ daemon \in {"starting", "nosession"}
        /\ page = [gen |-> 0, closed |-> TRUE, url |-> "blank"]
        /\ ui = GoneDom
        /\ order = <<>>
        /\ \A i \in Ids : req[i] = NoReqData /\ resp[i] = NoResp /\ proc[i] = NoProc
        /\ health = NoHealth
        /\ reqBudget = MaxReq
        /\ ~ENABLED HandleAsk
        /\ ~ENABLED Health

\* the daemon has ended its startup on the missing file
C23_Witness == ~storage /\ daemon = "nosession"

\* ---------------------------------------------------------- start wait
\* C24: the time a request can spend waiting for the busy indicator to
\* appear is strictly less than the request's timeout, and never more
\* than the fixed start wait
C24_StartWaitShorter ==
    [][\A i \in Ids :
         (proc[i].pc = "awaitStart" /\ proc'[i].pc # "awaitStart") =>
             /\ proc'[i].now - proc[i].now < req[i].timeout
             /\ proc'[i].now - proc[i].now <= StartWaitMs]_vars

\* ---------------------------------------------------- session discovery
\* C25: discoverSessionId returns null when there is no ppid-map file for
\* the ppid and the tmux variables are unset or no pane-map file has the
\* key derived from them; when the ppid-map file exists it returns that
\* file's trimmed content without looking at the pane-map
C25_DiscoverNullOrPpid ==
    ses.pc = "returned" =>
        /\ ( /\ ses.ppid \notin DOMAIN ses.ppidMap
             /\ \/ ~InTmux(ses.tmux, ses.tmuxPane)
                \/ PaneKey(ses.tmux.val, ses.tmuxPane.val) \notin DOMAIN ses.paneMap )
              => ses.out.null
        /\ ses.ppid \in DOMAIN ses.ppidMap =>
              /\ ses.out = [null |-> FALSE, val |-> Trim(ses.ppidMap[ses.ppid])]
              /\ \A k \in 1..Len(ses.probes) : ses.probes[k][1] # "pane-map"

\* both files exist for a caller inside tmux, the ppid-map file padded
\* with blanks: the ppid-map content came back trimmed
C25_Witness ==
    /\ ses.pc = "returned"
    /\ ses.ppid \in DOMAIN ses.ppidMap
    /\ ses.ppidMap[ses.ppid] = <<" ", "b", " ">>
    /\ InTmux(ses.tmux, ses.tmuxPane)
    /\ PaneKey(ses.tmux.val, ses.tmuxPane.val) \in DOMAIN ses.paneMap
    /\ ses.paneMap[PaneKey(ses.tmux.val, ses.tmuxPane.val)] = <<"a">>
    /\ ses.out = [null |-> FALSE, val |-> <<"b">>]

\* -------------------------------------------------------- stabilisation
\* C26: a text returned as DONE is the trimmed, non-empty text of a read
\* that matched the remembered text for at least the threshold's worth of
\* consecutive comparisons, six of them, the threshold being a whole
\* multiple of the poll interval; a read that differs from the remembered
\* text, or is empty, sets the accumulator to zero and is remembered
C26_DoneAfterStableReads ==
    /\ [](StabilityThreshold % PollMs = 0 /\ StabilityThreshold \div PollMs >= 2)
    /\ [][\A i \in Ids :
             /\ (proc[i].pc = "read" /\ Ends(i) /\ last'.via = "DONE") =>
                    /\ ReadLastText(ui) # <<>>
                    /\ ReadLastText(ui) = Trim(ReadLastText(ui))
                    /\ ReadLastText(ui) = proc[i].lastText
                    /\ Ok200(i, ReadLastText(ui))
                    /\ proc[i].same + 1 >= StabilityThreshold \div PollMs
                    /\ proc[i].stableMs = proc[i].same * PollMs
             /\ (proc[i].pc = "read" /\ ~Ends(i) /\ proc'[i].pc # "read"
                   /\ (ReadLastText(ui) = <<>> \/ ReadLastText(ui) # proc[i].lastText)) =>
                    /\ proc'[i].stableMs = 0
                    /\ proc'[i].same = 0
                    /\ proc'[i].lastText = ReadLastText(ui)]_vars

\* DONE with the text "42" in a request whose loop did not run over a
\* quiet page with one text: an earlier read was empty or differed, or the
\* continuation control showed
C26_Witness ==
    /\ last.via = "DONE" /\ ~last.quiet
    /\ resp[last.id] = [status |-> 200, ok |-> TRUE, text |-> <<"4", "2">>, error |-> "none"]

\* ------------------------------------------------------ error detection
\* C27: error detection ends the request with SessionExpired when the page
\* is at the authentication location or the login control shows, whether
\* or not an error banner shows too; otherwise with UpstreamError and the
\* banner's trimmed text when the banner shows; otherwise it finds no
\* error and the poll goes on
C27_ErrorClassification ==
    [][\A i \in Ids :
         (proc[i].pc = "checkErr" /\ proc'[i].pc # "checkErr") =>
             /\ (page.url = "auth" \/ ui.login) =>
                    /\ Ends(i) /\ Err500(i, "SessionExpired")
                    /\ last'.via = "ERROR" /\ last'.detail = <<>>
             /\ (page.url # "auth" /\ ~ui.login /\ ui.toast) =>
                    /\ Ends(i) /\ Err500(i, "UpstreamError")
                    /\ last'.via = "ERROR" /\ last'.detail = Trim(ui.banner)
             /\ (page.url # "auth" /\ ~ui.login /\ ~ui.toast) =>
                    /\ proc'[i].pc = "checkCont"
                    /\ slot'[i] = slot[i] /\ resp'[i] = resp[i] /\ last' = last]_vars

\* a request ended with UpstreamError over a banner reading " f ", its
\* detail "f"
C27_Witness ==
    /\ last.via = "ERROR" /\ last.detail = <<"f">>
    /\ slot[last.id] = [state |-> "rejected", text |-> <<>>, err |-> "UpstreamError"]
    /\ resp[last.id].status = 500

\* ----------------------------------------------------------- poll order
\* C28: a poll runs error detection, then the continuation check, then the
\* text comparison. A poll that detects an error ends the request with
\* that error: the continuation control is not clicked and no text comes
\* back, even when the read would have completed the threshold. A poll
\* that clicks the continuation control reads and compares no text
C28_PollOrder ==
    [][\A i \in Ids :
         /\ (proc'[i].pc = "checkCont" /\ proc[i].pc # "checkCont") =>
                (proc[i].pc = "checkErr" /\ CheckErrorStates(page, ui) = "none")
         /\ (proc'[i].pc = "read" /\ proc[i].pc # "read") =>
                (proc[i].pc = "checkCont" /\ ~ui.cont)
         /\ (proc[i].pc = "checkErr" /\ proc'[i].pc # "checkErr"
               /\ CheckErrorStates(page, ui) # "none") =>
                /\ Ends(i) /\ Err500(i, CheckErrorStates(page, ui))
                /\ last'.clicked = proc[i].clicked
                /\ last'.via = "ERROR"
         /\ (proc[i].pc = "checkCont" /\ proc'[i].pc # "checkCont" /\ ui.cont) =>
                /\ proc'[i].pc \in {"checkErr", "final"}
                /\ proc'[i].lastText = proc[i].lastText
                /\ proc'[i].same = 0
                /\ slot'[i] = slot[i] /\ resp'[i] = resp[i]
         /\ (Ends(i) /\ last'.via = "DONE") => proc[i].pc = "read"]_vars

\* a poll found an error on a page whose text had been the same for so
\* long that reading it would have ended the request with DONE
C28_Witness ==
    /\ last.via = "ERROR" /\ last.ripe /\ ~last.clicked
    /\ slot[last.id].state = "rejected"
    /\ slot[last.id].err \in {"SessionExpired", "UpstreamError"}

\* ----------------------------------------------------------- submission
\* C29: the prompt is submitted by a click on the send control when that
\* control is there and enabled, and otherwise, also after a click that
\* failed, by Enter on the composer; a request never makes more than one
\* gesture that goes through, so never a click and an Enter both
C29_OneGesture ==
    /\ [](\A i \in Ids : proc[i].submits <= 1 /\ proc[i].clicks <= proc[i].submits)
    /\ [][\A i \in Ids :
             /\ (proc[i].pc = "submit" /\ ~proc[i].tried
                   /\ (proc'[i].pc # "submit" \/ proc'[i].tried)) =>
                    /\ ui.send = "enabled" =>
                           /\ proc'[i].pc = "awaitStart"
                           /\ proc'[i].clicks = 1 /\ proc'[i].submits = 1
                    /\ (ui.send = "hidden" /\ ui.composer) =>
                           /\ proc'[i].pc = "awaitStart"
                           /\ proc'[i].clicks = 0 /\ proc'[i].submits = 1
                    /\ (ui.send = "disabled" \/ (ui.send = "hidden" /\ ~ui.composer)) =>
                           /\ proc'[i].pc = "submit" /\ proc'[i].tried
                           /\ proc'[i].clicks = 0 /\ proc'[i].submits = 0
             /\ (proc[i].pc = "submit" /\ proc[i].tried /\ proc'[i].pc # "submit") =>
                    /\ proc[i].submits = 0
                    /\ ui.composer =>
                           /\ proc'[i].pc = "awaitStart"
                           /\ proc'[i].clicks = 0 /\ proc'[i].submits = 1
                    /\ ~ui.composer =>
                           /\ Ends(i)
                           /\ slot'[i].state = "rejected"]_vars

\* the send control was disabled from before the submission on: the click
\* failed and the prompt went out by Enter alone
C29_Witness ==
    /\ uiBudget = MaxUIEvents - 1
    /\ ui.send = "disabled"
    /\ \E i \in Ids :
         /\ proc[i].pc = "awaitStart"
         /\ proc[i].submits = 1 /\ proc[i].clicks = 0

\* -------------------------------------------------------- message count
\* C30 as stated: beforeCount is read before any gesture of its request
\* and after every earlier request has ended, and is the number of
\* assistant messages in the page when the prompt is submitted
C30_CountAtSubmission ==
    [][\A i \in Ids :
         /\ (proc[i].pc = "count" /\ proc'[i].pc = "submit") =>
                /\ proc[i].submits = 0
                /\ \A n \in 1..Len(order) : \A m \in 1..(n - 1) :
                       order[n] = i => proc[order[m]].pc = "done"
         /\ (proc[i].submits = 0 /\ proc'[i].submits = 1) =>
                proc[i].beforeCount = Len(ui.msgs)]_vars

\* C30 amended: beforeCount is read before any gesture of its request and
\* after every earlier request has ended, and is the number of assistant
\* messages in the page at the read; at the submission it is still that
\* number, which is the page's unless the page gained or lost a message
\* after the read
C30_CountAtRead ==
    [][\A i \in Ids :
         /\ (proc[i].pc = "count" /\ proc'[i].pc = "submit") =>
                /\ proc[i].submits = 0
                /\ \A n \in 1..Len(order) : \A m \in 1..(n - 1) :
                       order[n] = i => proc[order[m]].pc = "done"
                /\ proc'[i].beforeCount = Len(ui.msgs)
         /\ (proc[i].submits = 0 /\ proc'[i].submits = 1) =>
                /\ proc'[i].beforeCount = proc[i].beforeCount
                /\ ~proc[i].moved => proc[i].beforeCount = Len(ui.msgs)]_vars

\* a second request submitted its prompt over a page holding the first
\* one's reply, counted before the gesture
C30_Witness ==
    /\ Len(order) = 2
    /\ proc[order[1]].pc = "done"
    /\ proc[order[2]].pc = "awaitStart"
    /\ slot[order[1]].state = "resolved"
    /\ uiBudget = MaxUIEvents - 1
    /\ proc[order[2]].submits = 1
    /\ proc[order[2]].beforeCount = 1 /\ Len(ui.msgs) = 1

\* ----------------------------------------------------- composer missing
\* C31: when the composer does not show within its wait the request ends
\* with ComposerNotFound and with nothing done: no text entered, no
\* gesture made, the detector never entered, the page as it was, and the
\* request queued behind it free to start
C31_ComposerNotFound ==
    /\ [][\A i \in Ids :
             (proc[i].pc = "composer" /\ proc'[i].pc # "composer"
                /\ ~ui.composer /\ ~page.closed) =>
                 /\ Ends(i) /\ Err500(i, "ComposerNotFound")
                 /\ proc[i].submits = 0 /\ proc[i].clicks = 0 /\ ~proc[i].tried
                 /\ last'.via = "ERROR" /\ last'.busy = "none"
                 /\ page' = page /\ ui' = ui /\ daemon' = daemon
                 /\ order' = order
                 /\ chain'[i] = "fulfilled"]_vars
    /\ [](\A j \in Ids :
             (proc[j].pc = "queued" /\ daemon = "ready" /\ Pred(j) # 0
                /\ slot[Pred(j)].err = "ComposerNotFound") => ENABLED ProcessStart(j))

\* the first request ended with ComposerNotFound and the second, queued
\* behind it, has gone on to fill the composer of the same page
C31_Witness ==
    /\ Len(order) = 2
    /\ slot[order[1]] = [state |-> "rejected", text |-> <<>>, err |-> "ComposerNotFound"]
    /\ resp[order[1]].status = 500
    /\ proc[order[2]].pc = "fill"
    /\ page.gen = 1 /\ ~page.closed

\* ------------------------------------------------------- response anchor
\* C32: the text a request returns, by DONE or by the timeout path, is
\* read from a message beyond the beforeCount messages that the page held
\* before the prompt was submitted
C32_NeverStaleText ==
    [][\A i \in Ids :
         (Ends(i) /\ slot'[i].state = "resolved") =>
             LastAssistant(ui) > proc[i].beforeCount]_vars

\* ------------------------------------------------------- forward only
\* how far a request's detection has come: not begun, AWAITING_START,
\* GENERATING, STABILIZING, the timeout path, ended
DetRank(p) ==
    CASE p.pc = "awaitStart" -> 1
      [] p.pc = "generating" -> 2
      [] p.pc \in {"msgVisible", "checkErr", "checkCont", "read"} -> 3
      [] p.pc = "final" -> 4
      [] p.pc = "done" -> 5
      [] OTHER -> 0

\* C33: the detector goes from AWAITING_START to GENERATING to STABILIZING
\* to its end and never back, whatever the busy indicator does after a
\* continuation click; once a request has ended with DONE, ERROR or
\* TIMEOUT no step of it can run again, so it neither clicks nor reads
C33_ForwardOnly ==
    /\ [][\A i \in Ids :
             /\ DetRank(proc'[i]) >= DetRank(proc[i])
             /\ (DetRank(proc[i]) \in 1..2 /\ DetRank(proc'[i]) \in 1..3) =>
                    DetRank(proc'[i]) <= DetRank(proc[i]) + 1
             /\ proc[i].pc = "done" => proc'[i] = proc[i]]_vars
    /\ [](\A i \in Ids : proc[i].pc = "done" =>
             /\ last.via \in {"DONE", "ERROR", "TIMEOUT"}
             /\ ~ENABLED (\/ AwaitStart(i) \/ Generating(i) \/ MsgVisible(i)
                          \/ CheckErr(i) \/ CheckCont(i) \/ Read(i) \/ Final(i)
                          \/ Submit(i) \/ SubmitFallback(i)))

\* the continuation control was clicked and the busy indicator shows, and
\* the detector is in STABILIZING all the same
C33_Witness ==
    \E i \in Ids :
        /\ DetState(proc[i]) = "STABILIZING"
        /\ proc[i].clicked
        /\ ui.stop

C35_SubmitOnNavigatedPage ==
    [][\A i \in Ids :
         (proc[i].pc # "composer" /\ proc'[i].pc = "composer") =>
             /\ ~page'.closed
             /\ page'.url # "blank"]_vars

\* ------------------------------------------------------ handler escapes
\* C36: whatever the body of a POST /ask, the handler answers it and lets
\* nothing escape: a body that is not enqueued is answered 400 at once and
\* the daemon never enters its shutdown path because of a request
C36_NoEscape ==
    /\ daemon # "down"
    /\ \A i \in Ids :
          req[i].kind \in {"invalid", "noprompt", "null"} => resp[i].status = 400

\* ------------------------------------------------------- requests aside
\* C37: a POST /ask answered 400, a GET /health, an OPTIONS request and a
\* request to an unknown route change nothing of the queue, of the
\* requests in it or of the page
C37_AsideLeavesQueueAndPage ==
    [][( \/ \E i \in Ids : resp[i].status # 400 /\ resp'[i].status = 400
         \/ health' # health
         \/ plain' # plain ) =>
            /\ UNCHANGED <<daemon, page, ui, order, chain, slot, settles, proc,
                           started, settled, last>>
            /\ \A i \in Ids : resp'[i] # resp[i] => req[i].kind = "none"
            /\ \A i \in Ids : req'[i] # req[i] => req'[i].kind \in {"invalid", "noprompt"}]_vars

\* a 400 and a 404 were written while the first request was polling
C37_Witness ==
    /\ Len(order) = 1
    /\ proc[order[1]].pc = "checkErr"
    /\ \E i \in Ids : req[i].kind \in {"invalid", "noprompt"} /\ resp[i].status = 400
    /\ plain = [n |-> 1, status |-> 404]

\* ------------------------------------------------------- caller deadline
\* C38: the caller's deadline, the request's timeout and ten seconds more,
\* has not passed while the daemon is still working on the request: the
\* time the detector alone has taken stays within it
C38_CliDeadlineCovers ==
    \A i \in Ids :
        (req[i].kind = "ask" /\ proc[i].pc # "done") =>
            proc[i].now <= req[i].timeout + CliSlackMs

\* ------------------------------------------------- partial and finished
\* C39: a request that ended in DONE with a text and one that ended by the
\* timeout path with the same text got the same reply, 200 { ok, text },
\* in which no field tells the one from the other
C39_PartialLooksDone ==
    \A i, j \in Ids :
        ( /\ proc[i].pc = "done" /\ proc[i].via = "DONE"
          /\ proc[j].pc = "done" /\ proc[j].via = "TIMEOUT"
          /\ slot[i].state = "resolved" /\ slot[j].state = "resolved"
          /\ slot[i].text = slot[j].text ) =>
            /\ resp[i] = resp[j]
            /\ resp[i] = [status |-> 200, ok |-> TRUE, text |-> slot[i].text, error |-> "none"]
            /\ DOMAIN resp[j] = {"status", "ok", "text", "error"}

\* one request ended in DONE and another by the timeout path, both with
\* the text "4"
C39_Witness ==
    \E i, j \in Ids :
        /\ proc[i].pc = "done" /\ proc[i].via = "DONE"
        /\ proc[j].pc = "done" /\ proc[j].via = "TIMEOUT"
        /\ resp[i].text = <<"4">> /\ resp[j].text = <<"4">>
        /\ resp[i].status = 200 /\ resp[j].status = 200

====
